---------------------------- MODULE Spec2Model ----------------------------
(***************************************************************************)
(* A model of indra.statements.concept.Concept: grounding resolution       *)
(* (get_grounding), the identity keys (matches_key, matches, equals), the   *)
(* ontology relations (isa, is_opposite, refinement_of) and the JSON        *)
(* adapter (to_json, _from_json).                                           *)
(*                                                                         *)
(* Python values are tagged records with the same four fields, so that two  *)
(* values of different Python types can always be compared:                 *)
(*   t : the Python type ("str", "num", "list", "tuple", "None", "bool",    *)
(*       or "raise" for an exception that left the call)                    *)
(*   s : the text of a str (the exception class of a "raise")               *)
(*   n : the number of a num (1/0 for a bool)                               *)
(*   q : the items of a list or tuple                                       *)
(* A dict is a function whose domain is its set of keys.  Dicts are the     *)
(* only objects the code shares and assigns into, so they live in a heap    *)
(* and are referred to by identity.                                         *)
(***************************************************************************)
EXTENDS Integers, Sequences, FiniteSets, TLC

VARIABLES
    heap,      \* dict identity -> dict: the db_refs dicts that exist
    a,         \* the Concept the operations are called on (self)
    b,         \* a second Concept (other), or the one _from_json built
    ctor,      \* the name and db_refs value a was constructed with
    record,    \* the JSON dict in flight between to_json and _from_json
    ont,       \* the ontology collaborator's answers
    calls,     \* how many times the ontology has been called
    op,        \* the last operation that ran
    arg,       \* the ns_order (or entities_refined flag) it was given
    result     \* what it returned, or the exception it raised

vars == <<heap, a, b, ctor, record, ont, calls, op, arg, result>>

-----------------------------------------------------------------------------
(* Bounds of the model *)

\* longest list of (identifier, score) pairs
MaxScored == 2
\* longest list of candidate identifier strings
MaxCands == 2
\* the ontology stub stops counting here
MaxCalls == 2

-----------------------------------------------------------------------------
(* Python values *)

Val(t, s, n, q) == [t |-> t, s |-> s, n |-> n, q |-> q]
Str(s) == Val("str", s, 0, <<>>)
Num(n) == Val("num", "", n, <<>>)
List(q) == Val("list", "", 0, q)
Tuple(q) == Val("tuple", "", 0, q)
None == Val("None", "", 0, <<>>)
Bool(p) == Val("bool", "", IF p THEN 1 ELSE 0, <<>>)
Raise(cls) == Val("raise", cls, 0, <<>>)

True == Bool(TRUE)
False == Bool(FALSE)

\* bool(v): the truth value Python's `not` and `all` use
Truthy(v) ==
    CASE v.t = "str" -> v.s /= ""
      [] v.t = "num" -> v.n /= 0
      [] v.t = "bool" -> v.n /= 0
      [] v.t \in {"list", "tuple"} -> v.q /= <<>>
      [] OTHER -> FALSE

\* isinstance(v, (list, tuple))
IsListOrTuple(v) == v.t \in {"list", "tuple"}

\* The characters of the identifier strings of the model, as iterating a str
\* yields them.
Chars(s) ==
    CASE s = "" -> <<>>
      [] s = "x" -> <<"x">>
      [] s = "y" -> <<"y">>
      [] s = "a" -> <<"a">>
      [] s = "b" -> <<"b">>
      [] s = "ab" -> <<"a", "b">>
      [] s = "foo" -> <<"f", "o", "o">>

\* v[i] with Python's 0-based index i: IndexError past the end, TypeError on
\* a value that cannot be subscripted
Subscript(v, i) ==
    CASE v.t = "str" ->
            IF i < Len(Chars(v.s)) THEN Str(Chars(v.s)[i + 1]) ELSE Raise("IndexError")
      [] v.t \in {"list", "tuple"} ->
            IF i < Len(v.q) THEN v.q[i + 1] ELSE Raise("IndexError")
      [] OTHER -> Raise("TypeError")

\* dict.get(k): None when the key is absent
Get(d, k) == IF k \in DOMAIN d THEN d[k] ELSE None

-----------------------------------------------------------------------------
(* sorted(seq, key=lambda x: x[1], reverse=True) *)

\* the keys of the items, in order
KeysOf(q) == [i \in 1..Len(q) |-> Subscript(q[i], 1)]

\* the first exception computing a key raises, if any
RECURSIVE FirstRaise(_, _)
FirstRaise(ks, i) ==
    IF i > Len(ks) THEN None
    ELSE IF ks[i].t = "raise" THEN ks[i]
    ELSE FirstRaise(ks, i + 1)

\* insert item x before the first item whose key is smaller: a stable
\* descending order, equal keys keep their original order
RECURSIVE InsertDesc(_, _)
InsertDesc(sorted, x) ==
    IF sorted = <<>> THEN <<x>>
    ELSE IF Subscript(Head(sorted), 1).n < Subscript(x, 1).n
         THEN <<x>> \o sorted
         ELSE <<Head(sorted)>> \o InsertDesc(Tail(sorted), x)

RECURSIVE SortDescFrom(_, _, _)
SortDescFrom(q, i, acc) ==
    IF i > Len(q) THEN acc ELSE SortDescFrom(q, i + 1, InsertDesc(acc, q[i]))

\* The sorted list, or the exception.  The sort compares keys that are
\* numbers; keys of another type are reported as "Unmodelled" (KeysAreNumbers
\* below states that no such sort is ever run).
SortKeyed(q, ks, r) ==
    IF r.t = "raise" THEN r
    ELSE IF \E i \in 1..Len(ks) : ks[i].t /= "num" THEN Raise("Unmodelled")
    ELSE List(SortDescFrom(q, 1, <<>>))

SortedByScoreDesc(seq) ==
    SortKeyed(seq.q, KeysOf(seq.q), FirstRaise(KeysOf(seq.q), 1))

-----------------------------------------------------------------------------
(* Concept.get_grounding *)

default_ns_order == <<"WM", "UN", "HUME", "SOFIA", "CWMS">>

\* an exception raised while x was computed leaves the call; otherwise the
\* call goes on with `next`
OrElse(x, next) == IF x.t = "raise" THEN x ELSE next

\* line 57: sorted(...)[0][0]
TopIdentifier(srt) ==
    OrElse(srt, OrElse(Subscript(srt, 0), Subscript(Subscript(srt, 0), 0)))

\* lines 55-57, `first` being db_id[0]
ExtractFirst(first) ==
    IF ~IsListOrTuple(first) THEN first
    ELSE TopIdentifier(SortedByScoreDesc(first))

\* lines 53-57: the identifier taken from a truthy value
Extract(db_id) ==
    IF ~IsListOrTuple(db_id) THEN db_id
    ELSE ExtractFirst(Subscript(db_id, 0))

\* line 58: return db_ns, db_id
Grounding(db_ns, db_id) == OrElse(db_id, Tuple(<<Str(db_ns), db_id>>))

\* Scan as it would be if an identifier that is empty after extraction sent
\* the loop on to the next namespace
RECURSIVE ScanSkipsEmptyId(_, _, _)
ScanSkipsEmptyId(db_refs, ns_order, i) ==
    IF i > Len(ns_order) THEN Tuple(<<None, None>>)
    ELSE LET db_id == Get(db_refs, ns_order[i])
         IN IF ~Truthy(db_id) THEN ScanSkipsEmptyId(db_refs, ns_order, i + 1)
            ELSE LET id == Extract(db_id)
                 IN IF id.t = "raise" THEN id
                    ELSE IF ~Truthy(id) THEN ScanSkipsEmptyId(db_refs, ns_order, i + 1)
                    ELSE Tuple(<<Str(ns_order[i]), id>>)

\* lines 49-59: the loop over ns_order, from position i
RECURSIVE Scan(_, _, _)
Scan(db_refs, ns_order, i) ==
    IF i > Len(ns_order) THEN Tuple(<<None, None>>)
    ELSE IF ~Truthy(Get(db_refs, ns_order[i])) THEN Scan(db_refs, ns_order, i + 1)
    ELSE Grounding(ns_order[i], Extract(Get(db_refs, ns_order[i])))

\* ns_order = <<>> stands for both None and [], which line 48 treats alike
get_grounding(db_refs, ns_order) ==
    Scan(db_refs, IF ns_order /= <<>> THEN ns_order ELSE default_ns_order, 1)

-----------------------------------------------------------------------------
(* The heap of db_refs dicts and the Concept objects *)

EmptyDict == [k \in {} |-> None]

\* "A": the dict a was constructed with; "B": the one b was constructed with;
\* "W": the dict of a record that arrived from outside; "E": an empty dict
\* made by `{}` (never assigned into, so all of them are alike).
HeapIds == {"A", "B", "W", "E"}

NoConcept == [kind |-> "None", name |-> "", refs |-> "E"]

\* __init__: self.db_refs = db_refs if db_refs else {}
Construct(kind, name, id, d) ==
    [kind |-> kind, name |-> name, refs |-> IF d = EmptyDict THEN "E" ELSE id]

NoRecord == [present |-> FALSE, has_name |-> FALSE, name |-> "",
             has_db_refs |-> FALSE, refs |-> "E"]

NoOntology == [isa |-> {}, is_opposite |-> {}]

-----------------------------------------------------------------------------
(* The values the model draws db_refs from *)

RECURSIVE SeqsOfLen(_, _)
SeqsOfLen(S, n) ==
    IF n = 0 THEN {<<>>}
    ELSE {Append(q, e) : q \in SeqsOfLen(S, n - 1), e \in S}

SeqsFromTo(S, lo, hi) == UNION {SeqsOfLen(S, n) : n \in lo..hi}

Ids == {"x", "y"}
\* 3 and 9 stand for the scores 0.3 and 0.9: only their order is used
Scores == {3, 9}
Pairs == {Tuple(<<Str(i), Num(sc)>>) : i \in Ids, sc \in Scores}

\* shape (a): a scalar identifier, "" included
Scalars == {Str(""), Str("x"), Str("y")}
\* shape (b): a list of candidate identifiers, [] included
CandLists == {List(q) : q \in SeqsFromTo({Str(""), Str("ab")}, 0, MaxCands)}
\* shape (c): a list of (identifier, score) pairs
ScoredLists == {List(q) : q \in SeqsFromTo(Pairs, 1, MaxScored)}
\* the shape lines 55-57 sort: a list whose first entry is a list of pairs
NestedLists == {List(<<l>>) : l \in ScoredLists}

Values == Scalars \cup CandLists \cup ScoredLists \cup NestedLists

Keys == {"WM", "UN"}
Dicts(V) == UNION {[K -> V] : K \in SUBSET Keys}

\* the ns_order arguments tried; <<>> is "no order supplied"
Orders == {<<>>, <<"UN", "WM">>, <<"UN">>, <<"HUME", "WM">>}

OrderVal(o) == List([i \in 1..Len(o) |-> Str(o[i])])

-----------------------------------------------------------------------------
(* Grounding resolution on one Concept *)

Init ==
    /\ \E d \in Dicts(Values) :
          /\ heap = [id \in HeapIds |-> IF id = "A" THEN d ELSE EmptyDict]
          /\ a = Construct("Concept", "foo", "A", d)
          /\ ctor = [name |-> "foo", db_refs |-> d]
    /\ b = NoConcept
    /\ record = NoRecord
    /\ ont = NoOntology
    /\ calls = 0
    /\ op = "init"
    /\ arg = None
    /\ result = None

GetGrounding(o) ==
    /\ a /= NoConcept
    /\ op' = "get_grounding"
    /\ arg' = OrderVal(o)
    /\ result' = get_grounding(heap[a.refs], o)
    /\ UNCHANGED <<heap, a, b, ctor, record, ont, calls>>

NextG == \E o \in Orders : GetGrounding(o)

SpecG == Init /\ [][NextG]_vars

-----------------------------------------------------------------------------
(* Properties of grounding resolution (checked under SpecG) *)

\* the order the call of `arg` scans: the default when none was supplied
EffOrder(o) ==
    IF o.q = <<>> THEN default_ns_order ELSE [i \in 1..Len(o.q) |-> o.q[i].s]

\* namespace k has a present, non-empty value
Present(d, k) ==
    /\ k \in DOMAIN d
    /\ d[k] \notin {Str(""), List(<<>>), Tuple(<<>>), None}

HasWinner(d, o) == \E i \in 1..Len(o) : Present(d, o[i])

\* the first namespace of the order with a present, non-empty value
Winner(d, o) ==
    o[CHOOSE i \in 1..Len(o) :
          Present(d, o[i]) /\ \A j \in 1..(i - 1) : ~Present(d, o[j])]

IsPair(v) ==
    /\ v.t = "tuple"
    /\ Len(v.q) = 2
    /\ v.q[1].t = "str"
    /\ v.q[2].t = "num"

\* v is a non-empty list of (identifier, score) pairs
IsScoredList(v) ==
    /\ v.t = "list"
    /\ v.q /= <<>>
    /\ \A i \in 1..Len(v.q) : IsPair(v.q[i])

\* id is the identifier of the earliest pair of q that has the highest score
IsBestOf(id, q) ==
    \E i \in 1..Len(q) :
        /\ id = q[i].q[1]
        /\ \A j \in 1..Len(q) : q[j].q[2].n <= q[i].q[2].n
        /\ \A j \in 1..(i - 1) : q[j].q[2].n < q[i].q[2].n

\* C1: get_grounding returns a pair whose namespace is the first namespace of
\* the priority order (the default order when none is supplied) with a
\* present, non-empty value, and (None, None) exactly when there is none.
C1_FirstPresentNamespaceWins ==
    op = "get_grounding" =>
        LET d == heap[a.refs]
            o == EffOrder(arg)
        IN IF HasWinner(d, o)
           THEN /\ result.t = "tuple"
                /\ result.q[1] = Str(Winner(d, o))
           ELSE result = Tuple(<<None, None>>)

\* C1 on the values that are not lists of pairs: the same statement holds.
FirstPresentNamespaceWinsUnlessScored ==
    op = "get_grounding" =>
        LET d == heap[a.refs]
            o == EffOrder(arg)
        IN IF HasWinner(d, o)
           THEN \/ IsScoredList(d[Winner(d, o)])
                \/ /\ result.t = "tuple"
                   /\ result.q[1] = Str(Winner(d, o))
           ELSE result = Tuple(<<None, None>>)

\* C2: when the winning value is a list of (identifier, score) pairs,
\* get_grounding returns the identifier of the earliest pair with the highest
\* score.
C2_HighestScoreWins ==
    (/\ op = "get_grounding"
     /\ HasWinner(heap[a.refs], EffOrder(arg))
     /\ IsScoredList(heap[a.refs][Winner(heap[a.refs], EffOrder(arg))]))
    => LET ns == Winner(heap[a.refs], EffOrder(arg))
       IN /\ result.t = "tuple"
          /\ result.q[1] = Str(ns)
          /\ IsBestOf(result.q[2], heap[a.refs][ns].q)

\* What lines 53-57 do with a list of pairs: every such call raises.
ScoredListRaises ==
    (/\ op = "get_grounding"
     /\ HasWinner(heap[a.refs], EffOrder(arg))
     /\ IsScoredList(heap[a.refs][Winner(heap[a.refs], EffOrder(arg))]))
    => result \in {Raise("IndexError"), Raise("TypeError")}

\* The shape lines 53-57 do resolve by score: a list whose first entry is a
\* list of pairs yields the earliest highest-scored identifier of that entry.
NestedScoredListResolves ==
    (/\ op = "get_grounding"
     /\ HasWinner(heap[a.refs], EffOrder(arg))
     /\ heap[a.refs][Winner(heap[a.refs], EffOrder(arg))] \in NestedLists)
    => LET ns == Winner(heap[a.refs], EffOrder(arg))
       IN /\ result.t = "tuple"
          /\ result.q[1] = Str(ns)
          /\ IsBestOf(result.q[2], heap[a.refs][ns].q[1].q)

\* Every sort the model runs compares numbers.
KeysAreNumbers == result /= Raise("Unmodelled")

\* C10 as claimed: get_grounding never returns a namespace paired with an
\* empty identifier.
C10_NeverEmptyIdentifier ==
    (/\ op = "get_grounding"
     /\ result.t = "tuple"
     /\ result.q[1] /= None)
    => result.q[2] \notin {Str(""), None}

\* C10 as amended: when the winning value is a sequence whose first element
\* is the empty string, get_grounding returns that namespace paired with the
\* empty identifier and does not go on to a later namespace.
C10_EmptyIdentifierReturned ==
    (/\ op = "get_grounding"
     /\ HasWinner(heap[a.refs], EffOrder(arg))
     /\ LET v == heap[a.refs][Winner(heap[a.refs], EffOrder(arg))]
        IN v.t \in {"list", "tuple"} /\ v.q[1] = Str(""))
    => result = Tuple(<<Str(Winner(heap[a.refs], EffOrder(arg))), Str("")>>)

\* a default-order call on {WM: [""], UN: "x"} has answered (WM, "")
C10_Witness ==
    /\ op = "get_grounding"
    /\ arg = OrderVal(<<>>)
    /\ heap[a.refs] = [k \in {"WM", "UN"} |->
                          IF k = "WM" THEN List(<<Str("")>>) ELSE Str("x")]
    /\ result = Tuple(<<Str("WM"), Str("")>>)

-----------------------------------------------------------------------------
(* Identity keys: matches_key, matches, entity_matches, equals *)

\* repr() of the values a grounding holds
Repr(v) ==
    CASE v.t = "str" -> "'" \o v.s \o "'"
      [] v.t = "num" -> ToString(v.n)
      [] v.t = "None" -> "None"

\* lines 34-40: the name when there is no grounding, else str((db_ns, db_id))
KeyOf(g, name) ==
    IF g.t = "raise" THEN g
    ELSE IF ~Truthy(g.q[1]) /\ ~Truthy(g.q[2]) THEN Str(name)
    ELSE Str("(" \o Repr(g.q[1]) \o ", " \o Repr(g.q[2]) \o ")")

entity_matches_key(c) == KeyOf(get_grounding(heap[c.refs], <<>>), c.name)

\* lines 27-29: str(key) of a key that is a str already
matches_key(c) == entity_matches_key(c)

\* self's key is computed first, then other's
KeysEqual(k1, k2) ==
    IF k1.t = "raise" THEN k1
    ELSE IF k2.t = "raise" THEN k2
    ELSE Bool(k1 = k2)

matches(c, other) == KeysEqual(matches_key(c), matches_key(other))

entity_matches(c, other) ==
    KeysEqual(entity_matches_key(c), entity_matches_key(other))

equals(c, other) ==
    Bool(c.name = other.name /\ heap[c.refs] = heap[other.refs])

-----------------------------------------------------------------------------
(* Ontology relations: isa, is_opposite, refinement_of.  Each yields what   *)
(* the call returns (ret) and how many ontology calls it made (called).     *)

Outcome(r, n) == [ret |-> r, called |-> n]

\* lines 67-70 and 78-82, g1 and g2 being the two groundings and `edges` the
\* relation the ontology is asked
Related(g1, g2, edges) ==
    IF g1.t = "raise" THEN Outcome(g1, 0)
    ELSE IF g2.t = "raise" THEN Outcome(g2, 0)
    ELSE IF ~(Truthy(g1.q[1]) /\ Truthy(g1.q[2])
              /\ Truthy(g2.q[1]) /\ Truthy(g2.q[2]))
         THEN Outcome(False, 0)
    ELSE Outcome(Bool(<<g1.q[1].s, g1.q[2].s, g2.q[1].s, g2.q[2].s>> \in edges), 1)

isa(c, other, ontology) ==
    Related(get_grounding(heap[c.refs], <<>>),
            get_grounding(heap[other.refs], <<>>), ontology.isa)

is_opposite(c, other, ontology) ==
    Related(get_grounding(heap[c.refs], <<>>),
            get_grounding(heap[other.refs], <<>>), ontology.is_opposite)

\* lines 96-98, i being what self.isa(other, ontology) did
RefinedByIsa(i) ==
    IF i.ret.t = "raise" THEN i ELSE Outcome(Bool(Truthy(i.ret)), i.called)

\* lines 94-98, m being what self.entity_matches(other) did
RefinedByMatch(m, c, other, ontology) ==
    IF m.t = "raise" THEN Outcome(m, 0)
    ELSE IF Truthy(m) THEN Outcome(True, 0)
    ELSE RefinedByIsa(isa(c, other, ontology))

refinement_of(c, other, ontology, entities_refined) ==
    IF c.kind /= other.kind THEN Outcome(False, 0)
    ELSE IF entities_refined THEN Outcome(True, 0)
    ELSE RefinedByMatch(entity_matches(c, other), c, other, ontology)

-----------------------------------------------------------------------------
(* Two Concepts and an ontology *)

\* the db_refs the two Concepts are drawn from
RelWM == {Str("x"), Str("y"), List(<<Str("")>>),
          List(<<Tuple(<<Str("x"), Num(3)>>)>>)}
RelUN == {Str("x")}
RelDicts ==
    {[k \in K |-> IF k = "WM" THEN w ELSE u] :
        K \in SUBSET Keys, w \in RelWM, u \in RelUN}

\* a plain name, and a name that is the text of a grounding pair
Names == {"foo", "('WM', 'x')"}
\* Concept itself and a subclass of it
Kinds == {"Concept", "Subclass"}

AllEdges == {<<n1, i1, n2, i2>> : n1 \in Keys, i1 \in Ids, n2 \in Keys, i2 \in Ids}
Ontologies ==
    {[isa |-> {}, is_opposite |-> AllEdges],
     [isa |-> {<<"WM", "x", "WM", "y">>}, is_opposite |-> {}],
     [isa |-> AllEdges, is_opposite |-> {<<"WM", "x", "WM", "y">>}]}

InitR ==
    /\ \E d1 \in RelDicts, d2 \in RelDicts, n1 \in Names, n2 \in Names,
          k1 \in Kinds, k2 \in Kinds :
          /\ heap = [id \in HeapIds |->
                        IF id = "A" THEN d1 ELSE IF id = "B" THEN d2 ELSE EmptyDict]
          /\ a = Construct(k1, n1, "A", d1)
          /\ b = Construct(k2, n2, "B", d2)
          /\ ctor = [name |-> n1, db_refs |-> d1]
    /\ record = NoRecord
    /\ ont \in Ontologies
    /\ calls = 0
    /\ op = "init"
    /\ arg = None
    /\ result = None

\* an operation that returns r and leaves everything else alone
Returns(name, argument, r) ==
    /\ op' = name
    /\ arg' = argument
    /\ result' = r
    /\ UNCHANGED <<heap, a, b, ctor, record, ont>>

\* an operation that may have called the ontology
Finishes(name, argument, outcome) ==
    /\ Returns(name, argument, outcome.ret)
    /\ calls' = calls + outcome.called

MatchesKey ==
    /\ a /= NoConcept
    /\ Returns("matches_key", None, matches_key(a))
    /\ UNCHANGED calls

Matches ==
    /\ a /= NoConcept /\ b /= NoConcept
    /\ Returns("matches", None, matches(a, b))
    /\ UNCHANGED calls

Equals ==
    /\ a /= NoConcept /\ b /= NoConcept
    /\ Returns("equals", None, equals(a, b))
    /\ UNCHANGED calls

Isa ==
    /\ a /= NoConcept /\ b /= NoConcept
    /\ calls < MaxCalls
    /\ Finishes("isa", None, isa(a, b, ont))

IsOpposite ==
    /\ a /= NoConcept /\ b /= NoConcept
    /\ calls < MaxCalls
    /\ Finishes("is_opposite", None, is_opposite(a, b, ont))

RefinementOf(entities_refined) ==
    /\ a /= NoConcept /\ b /= NoConcept
    /\ calls < MaxCalls
    /\ Finishes("refinement_of", Bool(entities_refined),
                refinement_of(a, b, ont, entities_refined))

NextR ==
    \/ MatchesKey
    \/ Matches
    \/ Equals
    \/ Isa
    \/ IsOpposite
    \/ \E er \in BOOLEAN : RefinementOf(er)

SpecR == InitR /\ [][NextR]_vars

-----------------------------------------------------------------------------
(* Properties of the relations (checked under SpecR) *)

\* the grounding of c under the default order
Resolved(c) == get_grounding(heap[c.refs], <<>>)

Ungrounded(g) == g = Tuple(<<None, None>>)

\* resolution returned a namespace and an identifier, neither missing
Grounded(g) ==
    /\ g.t = "tuple"
    /\ g.q[1] \notin {None, Str("")}
    /\ g.q[2] \notin {None, Str("")}

\* the ontology's answer for the groundings g1 and g2
Answer(edges, g1, g2) ==
    Bool(<<g1.q[1].s, g1.q[2].s, g2.q[1].s, g2.q[2].s>> \in edges)

RelationAsClaimed(name, edges) ==
    op' = name =>
        /\ (Ungrounded(Resolved(a)) \/ Ungrounded(Resolved(b)))
              => (result' = False /\ calls' = calls)
        /\ (Grounded(Resolved(a)) /\ Grounded(Resolved(b)))
              => (result' = Answer(edges, Resolved(a), Resolved(b))
                  /\ calls' = calls + 1)

\* C3: isa and is_opposite return false without calling the ontology when
\* either Concept resolves to (None, None); when both are grounded they
\* return the ontology's answer for the two groundings, after one call.
C3_UngroundedNeverAsksOntology ==
    [][RelationAsClaimed("isa", ont.isa)
       /\ RelationAsClaimed("is_opposite", ont.is_opposite)]_vars

\* C3 where both resolutions return: the statement holds.
RelationWhenBothResolve ==
    [][(Resolved(a).t /= "raise" /\ Resolved(b).t /= "raise")
          => (RelationAsClaimed("isa", ont.isa)
              /\ RelationAsClaimed("is_opposite", ont.is_opposite))]_vars

\* C4: refinement_of decides by kind, then entities_refined, then matches,
\* then isa, else false; the ontology is not called when one of the first
\* three decides.
C4_RefinementDecidesInOrder ==
    [][op' = "refinement_of" =>
          IF a.kind /= b.kind THEN result' = False /\ calls' = calls
          ELSE IF arg' = True THEN result' = True /\ calls' = calls
          ELSE IF matches(a, b) = True THEN result' = True /\ calls' = calls
          ELSE IF isa(a, b, ont).ret = True THEN result' = True
          ELSE result' = False]_vars

\* C4 where both resolutions return: the statement holds.
RefinementWhenBothResolve ==
    [][(op' = "refinement_of"
        /\ Resolved(a).t /= "raise" /\ Resolved(b).t /= "raise") =>
          IF a.kind /= b.kind THEN result' = False /\ calls' = calls
          ELSE IF arg' = True THEN result' = True /\ calls' = calls
          ELSE IF matches(a, b) = True THEN result' = True /\ calls' = calls
          ELSE IF isa(a, b, ont).ret = True
               THEN result' = True /\ calls' = calls + 1
          ELSE result' = False /\ calls' = calls + isa(a, b, ont).called]_vars

\* C5: Concepts with distinct groundings never match, and an ungrounded
\* Concept never matches a grounded one, whatever its name.
C5_KeysNeverCollide ==
    (/\ op = "matches"
     /\ Resolved(a).t = "tuple"
     /\ Resolved(b).t = "tuple"
     /\ Resolved(a) /= Resolved(b)
     /\ ~(Ungrounded(Resolved(a)) /\ Ungrounded(Resolved(b))))
    => result = False

\* C5 on grounded Concepts alone: distinct groundings have distinct keys.
DistinctGroundingsDistinctKeys ==
    (/\ op = "matches"
     /\ Resolved(a).t = "tuple" /\ ~Ungrounded(Resolved(a))
     /\ Resolved(b).t = "tuple" /\ ~Ungrounded(Resolved(b))
     /\ Resolved(a) /= Resolved(b))
    => result = False

-----------------------------------------------------------------------------
(* The JSON adapter: to_json and _from_json *)

\* to_json: the record holds the Concept's own db_refs dict, not a copy
to_json(c) ==
    [present |-> TRUE, has_name |-> TRUE, name |-> c.name,
     has_db_refs |-> TRUE, refs |-> c.refs]

\* tuple(v) as it would be if it built a list
ListOf(v) ==
    CASE v.t = "str" -> List([i \in 1..Len(Chars(v.s)) |-> Str(Chars(v.s)[i])])
      [] v.t \in {"list", "tuple"} -> List(v.q)
      [] OTHER -> Raise("TypeError")

\* tuple(v): the items of a list or tuple, the characters of a str, and
\* TypeError for a value that cannot be iterated
TupleOf(v) ==
    CASE v.t = "str" -> Tuple([i \in 1..Len(Chars(v.s)) |-> Str(Chars(v.s)[i])])
      [] v.t \in {"list", "tuple"} -> Tuple(v.q)
      [] OTHER -> Raise("TypeError")

\* line 117: [tuple(v) for v in val], or the exception it raises
TuplesOf(val) ==
    OrElse(FirstRaise([i \in 1..Len(val.q) |-> TupleOf(val.q[i])], 1),
           List([i \in 1..Len(val.q) |-> TupleOf(val.q[i])]))

\* lines 115-117: the loop over db_refs.items(), ks being the order the dict
\* yields its keys in, from position i.  Yields the dict as the loop leaves
\* it and the exception that ended the loop, if any.
RECURSIVE Normalized(_, _, _)
Normalized(db_refs, ks, i) ==
    IF i > Len(ks) THEN [db_refs |-> db_refs, raised |-> None]
    ELSE IF db_refs[ks[i]].t /= "list" THEN Normalized(db_refs, ks, i + 1)
    ELSE IF TuplesOf(db_refs[ks[i]]).t = "raise"
         THEN [db_refs |-> db_refs, raised |-> TuplesOf(db_refs[ks[i]])]
    ELSE Normalized([db_refs EXCEPT ![ks[i]] = TuplesOf(@)], ks, i + 1)

\* the orders a dict can yield its keys in
KeyOrders(d) ==
    {ks \in SeqsOfLen(DOMAIN d, Cardinality(DOMAIN d)) :
        \A i, j \in 1..Len(ks) : i /= j => ks[i] /= ks[j]}

\* `not name` as it would be if only a missing name were refused
NameIsAbsent(rec) == ~rec.has_name

\* line 109: `not name`, for a name that is missing or a str
NameMissing(rec) == ~rec.has_name \/ rec.name = ""

\* line 108: json_dict.get('db_refs', {})
RefsOf(rec) == IF rec.has_db_refs THEN rec.refs ELSE "E"

AConcept(name) == Val("Concept", name, 0, <<>>)

\* lines 115-119, once the name is known to be there
Deserialize(rec, norm) ==
    /\ heap' = [heap EXCEPT ![RefsOf(rec)] = norm.db_refs]
    /\ IF norm.raised.t = "raise"
       THEN /\ result' = norm.raised
            /\ b' = b
       ELSE /\ result' = AConcept(rec.name)
            /\ b' = Construct("Concept", rec.name, RefsOf(rec), norm.db_refs)

ToJson ==
    /\ a /= NoConcept
    /\ record' = to_json(a)
    /\ op' = "to_json"
    /\ arg' = None
    /\ result' = Val("dict", "", 0, <<>>)
    /\ UNCHANGED <<heap, a, b, ctor, ont, calls>>

FromJson ==
    /\ record.present
    /\ op' = "_from_json"
    /\ arg' = None
    /\ IF NameMissing(record)
       THEN /\ result' = None
            /\ UNCHANGED <<heap, b>>
       ELSE \E ks \in KeyOrders(heap[RefsOf(record)]) :
               Deserialize(record, Normalized(heap[RefsOf(record)], ks, 1))
    /\ UNCHANGED <<a, ctor, record, ont, calls>>

NextJ == ToJson \/ FromJson

SpecJ == Init /\ [][NextJ]_vars

-----------------------------------------------------------------------------
(* Every operation on one Concept and on the Concept _from_json builds *)

NextM ==
    \/ \E o \in Orders : GetGrounding(o)
    \/ MatchesKey
    \/ Matches
    \/ Equals
    \/ Isa
    \/ IsOpposite
    \/ \E er \in BOOLEAN : RefinementOf(er)
    \/ ToJson
    \/ FromJson

SpecM == Init /\ [][NextM]_vars

-----------------------------------------------------------------------------
(* Records that arrive from outside *)

\* db_refs values of arriving records: the shapes JSON delivers (pairs as
\* lists) and a list that holds a number
ArrivingValues ==
    {Str("x"), List(<<Str("ab")>>), List(<<List(<<Str("x"), Num(3)>>)>>),
     List(<<Num(7)>>)}

InitV ==
    /\ \E d \in Dicts(ArrivingValues), hn \in BOOLEAN, n \in {"", "foo"},
          hr \in BOOLEAN :
          /\ heap = [id \in HeapIds |-> IF id = "W" /\ hr THEN d ELSE EmptyDict]
          /\ record = [present |-> TRUE, has_name |-> hn,
                       name |-> IF hn THEN n ELSE "",
                       has_db_refs |-> hr, refs |-> IF hr THEN "W" ELSE "E"]
    /\ a = NoConcept
    /\ b = NoConcept
    /\ ctor = [name |-> "", db_refs |-> EmptyDict]
    /\ ont = NoOntology
    /\ calls = 0
    /\ op = "init"
    /\ arg = None
    /\ result = None

NextV == FromJson

SpecV == InitV /\ [][NextV]_vars

-----------------------------------------------------------------------------
(* Properties of the JSON adapter *)

\* every value of d is a scalar or a list of (identifier, score) pairs
ScalarsAndPairLists(d) ==
    \A k \in DOMAIN d : d[k].t = "str" \/ IsScoredList(d[k])

\* C6 (under SpecJ): for a Concept whose db_refs values are scalars or lists
\* of pairs, _from_json of its to_json record is a Concept with the name and
\* the db_refs the Concept was constructed with.
C6_RoundTrip ==
    (/\ op = "_from_json"
     /\ record = to_json(a)
     /\ ScalarsAndPairLists(ctor.db_refs))
    => /\ result = AConcept(ctor.name)
       /\ b.kind = "Concept"
       /\ b.name = ctor.name
       /\ heap[b.refs] = ctor.db_refs

\* a Concept holding a scalar and a list of two pairs has made the round trip
C6_Witness ==
    /\ op = "_from_json"
    /\ record = to_json(a)
    /\ ctor.db_refs =
          [k \in {"WM", "UN"} |->
              IF k = "UN" THEN Str("x")
              ELSE List(<<Tuple(<<Str("x"), Num(3)>>), Tuple(<<Str("y"), Num(9)>>)>>)]
    /\ b.name = "foo"
    /\ heap[b.refs] = ctor.db_refs

\* C7 (under SpecM): whatever operations have run, the Concept has the name
\* and the db_refs it was constructed with.
C7_ConceptNeverChanges ==
    /\ a.name = ctor.name
    /\ heap[a.refs] = ctor.db_refs

\* C7 for the operations other than _from_json: none of them changes a dict.
OnlyFromJsonAssigns == [][op' /= "_from_json" => heap' = heap]_vars

\* what C9 says _from_json makes of a db_refs value
NormalizedAsClaimed(v) ==
    IF v.t /= "list" THEN v
    ELSE List([i \in 1..Len(v.q) |->
                  IF IsListOrTuple(v.q[i]) THEN Tuple(v.q[i].q) ELSE v.q[i]])

\* C9 (under SpecJ): _from_json turns the elements that are sequences into
\* tuples and leaves identifier strings and scalar values as they are.
C9_OnlyNestedSequencesConverted ==
    (op = "_from_json" /\ record = to_json(a))
    => /\ DOMAIN heap[b.refs] = DOMAIN ctor.db_refs
       /\ \A k \in DOMAIN ctor.db_refs :
             heap[b.refs][k] = NormalizedAsClaimed(ctor.db_refs[k])

\* C9 on the values that hold no candidate strings: the statement holds.
NormalizedUnlessCandidates ==
    (/\ op = "_from_json" /\ record = to_json(a)
     /\ \A k \in DOMAIN ctor.db_refs :
           \A i \in 1..Len(ctor.db_refs[k].q) : ctor.db_refs[k].q[i].t /= "str")
    => /\ DOMAIN heap[b.refs] = DOMAIN ctor.db_refs
       /\ \A k \in DOMAIN ctor.db_refs :
             heap[b.refs][k] = NormalizedAsClaimed(ctor.db_refs[k])

\* tuple(v) raises on no element of any value of d
Iterable(d) ==
    \A k \in DOMAIN d :
        d[k].t = "list" => \A i \in 1..Len(d[k].q) : d[k].q[i].t /= "num"

=============================================================================
